---- MODULE Spec2Model ----
(***************************************************************************)
(* Model of the pod ranking, pod selection, status classification and      *)
(* readiness wait of package kube.                                         *)
(*                                                                         *)
(* A Go pointer or optional field is a sequence of length 0 (nil) or 1.    *)
(* A timestamp is a natural number; 0 is the zero time.Time.               *)
(* A formatted message (fmt.Errorf) is the tuple of its literal parts and  *)
(* its arguments, in order.                                                *)
(***************************************************************************)
EXTENDS Integers, Sequences, FiniteSets, TLC

----------------------------------------------------------------------------
(* Bounds of the model *)

\* timestamps range over 0..MaxTime (0 is the zero time)
MaxTime == 2
\* restart counts range over 0..MaxRestarts
MaxRestarts == 1
\* a slice passed to the selection holds at most MaxPods snapshots
MaxPods == 3
\* a snapshot being classified has at most MaxContainers container statuses
MaxContainers == 2
\* and at most MaxInitContainers init container statuses
MaxInitContainers == 1
\* the watch's result channel buffers at most MaxChan events
MaxChan == 2
\* the backing array of ContainerStatuses has at most MaxSpare unused slots
MaxSpare == 2
\* each goroutine makes at most MaxCalls calls on the shared snapshot
MaxCalls == 1

----------------------------------------------------------------------------
(* corev1 values *)

PodPending == "Pending"
PodRunning == "Running"
PodSucceeded == "Succeeded"
PodFailed == "Failed"
PodUnknown == "Unknown"

Phases == {PodPending, PodRunning, PodSucceeded, PodFailed, PodUnknown}

PodReady == "Ready"
ConditionTrue == "True"
ConditionFalse == "False"
ContainerRestartPolicyAlways == "Always"

Nil == <<>>
Ptr(v) == <<v>>
IsNil(p) == Len(p) = 0
Deref(p) == p[1]

Max2(x, y) == IF x >= y THEN x ELSE y

----------------------------------------------------------------------------
(* metav1.Time on optional timestamps *)

\* (*Time).Equal: two nil pointers are equal, a nil and a set one are not
TimeEqual(t, u) ==
    IF IsNil(t) /\ IsNil(u) THEN TRUE
    ELSE IF ~IsNil(t) /\ ~IsNil(u) THEN Deref(t) = Deref(u)
    ELSE FALSE

\* (*Time).Before: false when either pointer is nil
TimeBefore(t, u) ==
    IF ~IsNil(t) /\ ~IsNil(u) THEN Deref(t) < Deref(u) ELSE FALSE

\* time.Time.After on two instants
TimeAfter(t, u) == t > u

----------------------------------------------------------------------------
(* Status classification *)

\* isPodDeleting
isPodDeleting(pod) == ~IsNil(pod.DeletionTimestamp)

\* the predicate IsPodReady and podReadyTime test a condition with
IsReadyTrue(condition) ==
    condition.Type = PodReady /\ condition.Status = ConditionTrue

\* slices.IndexFunc: the first index (from 0) satisfying the predicate, or -1
RECURSIVE IndexReadyFrom(_, _)
IndexReadyFrom(conds, i) ==
    IF i > Len(conds) THEN -1
    ELSE IF IsReadyTrue(conds[i]) THEN i - 1
    ELSE IndexReadyFrom(conds, i + 1)

\* IsPodReady
IsPodReady(pod) ==
    IF isPodDeleting(pod) THEN FALSE
    ELSE IndexReadyFrom(pod.Conditions, 1) >= 0

\* podReadyTime: the first true Ready condition's transition time, else the
\* zero time
RECURSIVE podReadyTimeFrom(_, _)
podReadyTimeFrom(conds, i) ==
    IF i > Len(conds) THEN 0
    ELSE IF IsReadyTrue(conds[i]) THEN conds[i].LastTransitionTime
    ELSE podReadyTimeFrom(conds, i + 1)

podReadyTime(pod) == podReadyTimeFrom(pod.Conditions, 1)

\* fmt.Errorf("container %s <what>: %s", name, message)
Errorf(name, what, message) == Ptr(<<"container ", name, what, message>>)

\* errors.New
ErrorsNew(text) == Ptr(<<text>>)

\* ContainerStatusToErr: an error, or nil
ContainerStatusToErr(s) ==
    IF s.Ready THEN Nil
    ELSE IF ~IsNil(s.Terminated)
    THEN Errorf(s.Name, " terminated: ", Deref(s.Terminated).Message)
    ELSE IF ~IsNil(s.Waiting)
    THEN CASE Deref(s.Waiting).Reason = "ImagePullBackOff" ->
                Errorf(s.Name, " has an invalid image: ", Deref(s.Waiting).Message)
           [] Deref(s.Waiting).Reason \in {"CrashLoopBackoff", "CreateContainerConfigError"} ->
                Errorf(s.Name, " failed to start: ", Deref(s.Waiting).Message)
           [] OTHER -> Nil
    ELSE Nil

\* the init container statuses scanned before the regular ones
AppendInitFirst(first, second) == second \o first

\* the elements append yields: those of the first slice, then the second's
AppendAll(first, second) == first \o second

\* the loop of PodErr: the first error of the statuses from index i on
RECURSIVE FirstStatusErr(_, _)
FirstStatusErr(statuses, i) ==
    IF i > Len(statuses) THEN Nil
    ELSE IF ~IsNil(ContainerStatusToErr(statuses[i]))
    THEN ContainerStatusToErr(statuses[i])
    ELSE FirstStatusErr(statuses, i + 1)

\* PodErr: an error, or nil
PodErr(pod) ==
    IF pod.Phase = PodFailed \/ pod.Phase = PodUnknown
    THEN ErrorsNew(pod.Reason)
    ELSE FirstStatusErr(AppendAll(pod.ContainerStatuses, pod.InitContainerStatuses), 1)

\* the body of WaitPodReady's event case on a snapshot: PodErr, then IsPodReady
Classify(pod) ==
    IF ~IsNil(PodErr(pod)) THEN [ kind |-> "Failed", err |-> Deref(PodErr(pod)) ]
    ELSE IF IsPodReady(pod) THEN [ kind |-> "Ready" ]
    ELSE [ kind |-> "NotYetReady" ]

----------------------------------------------------------------------------
(* Restart accounting *)

\* the first loop of maxContainerRestarts
RECURSIVE RegularRestarts(_, _, _)
RegularRestarts(statuses, i, acc) ==
    IF i > Len(statuses) THEN acc
    ELSE RegularRestarts(statuses, i + 1, Max2(acc, statuses[i].RestartCount))

\* the second loop: names of the init containers that always restart
SidecarNames(pod) ==
    { pod.InitContainers[i].Name : i \in
        { j \in 1..Len(pod.InitContainers) :
            /\ ~IsNil(pod.InitContainers[j].RestartPolicy)
            /\ Deref(pod.InitContainers[j].RestartPolicy) = ContainerRestartPolicyAlways } }

\* the third loop
RECURSIVE SidecarRestarts(_, _, _, _)
SidecarRestarts(statuses, names, i, acc) ==
    IF i > Len(statuses) THEN acc
    ELSE SidecarRestarts(statuses, names, i + 1,
            IF statuses[i].Name \in names
            THEN Max2(acc, statuses[i].RestartCount) ELSE acc)

\* maxContainerRestarts: <<regularRestarts, sidecarRestarts>>
maxContainerRestarts(pod) ==
    << RegularRestarts(pod.ContainerStatuses, 1, 0),
       SidecarRestarts(pod.InitContainerStatuses, SidecarNames(pod), 1, 0) >>

\* compareMaxContainerRestarts: a *bool
compareMaxContainerRestarts(pi, pj) ==
    LET ri == maxContainerRestarts(pi)
        rj == maxContainerRestarts(pj)
    IN  IF ri[1] # rj[1] THEN Ptr(ri[1] > rj[1])
        ELSE IF ri[2] # rj[2] THEN Ptr(ri[2] > rj[2])
        ELSE Nil

----------------------------------------------------------------------------
(* RankPods: each tier yields -1 or 1 when it decides and 0 when the code   *)
(* falls through to the next tier.                                          *)

\* tier 1 without the test that the node names differ
RankAssignedUnguarded(x, y) ==
    IF x.NodeName = "" THEN -1
    ELSE IF y.NodeName = "" THEN 1
    ELSE 0

\* 1. Unassigned < assigned
RankAssigned(x, y) ==
    IF x.NodeName # y.NodeName
    THEN IF x.NodeName = "" THEN -1
         ELSE IF y.NodeName = "" THEN 1
         ELSE 0
    ELSE 0

\* the map with every other phase ranked as Running
PhaseOrdinalOtherRunning(phase) ==
    CASE phase = PodPending -> 0
      [] phase = PodUnknown -> 1
      [] OTHER -> 2

\* the map m: a phase that is no key of the map reads as Go's zero value
PhaseOrdinal(phase) ==
    CASE phase = PodPending -> 0
      [] phase = PodUnknown -> 1
      [] phase = PodRunning -> 2
      [] OTHER -> 0

\* 2. PodPending < PodUnknown < PodRunning
RankPhase(x, y) ==
    IF PhaseOrdinal(x.Phase) # PhaseOrdinal(y.Phase)
    THEN IF PhaseOrdinal(x.Phase) < PhaseOrdinal(y.Phase) THEN -1 ELSE 1
    ELSE 0

\* 3. Not ready < ready
RankReady(x, y) ==
    LET aRdy == IsPodReady(x)
        bRdy == IsPodReady(y)
    IN  IF aRdy # bRdy THEN (IF bRdy THEN -1 ELSE 1) ELSE 0

\* 4. Deleting < Not deleting
RankDeleting(x, y) ==
    LET aDeleting == isPodDeleting(x)
        bDeleting == isPodDeleting(y)
    IN  IF aDeleting # bDeleting THEN (IF aDeleting THEN -1 ELSE 1) ELSE 0

\* 5. Older deletion timestamp < newer deletion timestamp
RankDeletionTime(x, y) ==
    IF /\ isPodDeleting(x)
       /\ isPodDeleting(y)
       /\ ~TimeEqual(x.DeletionTimestamp, y.DeletionTimestamp)
    THEN IF TimeBefore(x.DeletionTimestamp, y.DeletionTimestamp) THEN -1 ELSE 1
    ELSE 0

\* 6. If both pods are ready, the latest ready one is smaller
RankReadyTime(x, y) ==
    IF IsPodReady(x) /\ IsPodReady(y) /\ podReadyTime(x) # podReadyTime(y)
    THEN IF TimeAfter(podReadyTime(x), podReadyTime(y)) THEN -1 ELSE 1
    ELSE 0

\* 7. Pods with containers with higher restart counts < lower restart counts
RankRestarts(x, y) ==
    LET r == compareMaxContainerRestarts(x, y)
    IN  IF ~IsNil(r) THEN (IF Deref(r) THEN -1 ELSE 1) ELSE 0

\* 8. the creation timestamps
RankCreation(x, y) ==
    IF x.CreationTimestamp # y.CreationTimestamp
    THEN IF TimeAfter(x.CreationTimestamp, y.CreationTimestamp) THEN -1 ELSE 1
    ELSE 0

\* tiers 3 to 8, reached when tiers 1 and 2 fall through
RankFromReady(x, y) ==
    LET t3 == RankReady(x, y)
        t4 == RankDeleting(x, y)
        t5 == RankDeletionTime(x, y)
        t6 == RankReadyTime(x, y)
        t7 == RankRestarts(x, y)
    IN  IF t3 # 0 THEN t3
        ELSE IF t4 # 0 THEN t4
        ELSE IF t5 # 0 THEN t5
        ELSE IF t6 # 0 THEN t6
        ELSE IF t7 # 0 THEN t7
        ELSE RankCreation(x, y)

RankPods(x, y) ==
    LET t1 == RankAssigned(x, y)
        t2 == RankPhase(x, y)
    IN  IF t1 # 0 THEN t1
        ELSE IF t2 # 0 THEN t2
        ELSE RankFromReady(x, y)

----------------------------------------------------------------------------
(* Pod snapshots of the model *)

OptTimes == {Nil} \cup { Ptr(t) : t \in 1..MaxTime }

\* a snapshot with one regular container and one sidecar init container
MkPod(node, phase, rdy, del, regular, sidecar, created) ==
    [ NodeName |-> node,
      Phase |-> phase,
      Reason |-> "",
      Conditions |->
          IF IsNil(rdy) THEN <<>>
          ELSE << [ Type |-> PodReady, Status |-> ConditionTrue,
                    LastTransitionTime |-> Deref(rdy) ] >>,
      DeletionTimestamp |-> del,
      CreationTimestamp |-> created,
      ContainerStatuses |->
          << [ Name |-> "app", Ready |-> TRUE, RestartCount |-> regular,
               Terminated |-> Nil, Waiting |-> Nil ] >>,
      InitContainerStatuses |->
          << [ Name |-> "proxy", Ready |-> TRUE, RestartCount |-> sidecar,
               Terminated |-> Nil, Waiting |-> Nil ] >>,
      InitContainers |->
          << [ Name |-> "proxy", RestartPolicy |-> Ptr(ContainerRestartPolicyAlways) ] >> ]

\* a snapshot as the classifier reads it
Snapshot(phase, reason, conds, del, statuses, initStatuses) ==
    [ NodeName |-> "node-1",
      Phase |-> phase,
      Reason |-> reason,
      Conditions |-> conds,
      DeletionTimestamp |-> del,
      CreationTimestamp |-> 1,
      ContainerStatuses |-> statuses,
      InitContainerStatuses |-> initStatuses,
      InitContainers |-> <<>> ]

ReadyCond(status) ==
    [ Type |-> PodReady, Status |-> status, LastTransitionTime |-> 1 ]

Status(name, ready, terminated, waiting) ==
    [ Name |-> name, Ready |-> ready, RestartCount |-> 0,
      Terminated |-> terminated, Waiting |-> waiting ]

Terminated(message) == Ptr([ Message |-> message ])
Waiting(reason, message) == Ptr([ Reason |-> reason, Message |-> message ])

\* readiness and deletion of a snapshot: <<ready condition time, deletion time>>
Profiles ==
    { <<Nil, Nil>>, <<Ptr(1), Nil>>, <<Ptr(2), Nil>>,
      <<Nil, Ptr(1)>>, <<Nil, Ptr(2)>>, <<Ptr(1), Ptr(1)>> }

\* every scheduling state and phase against readiness and deletion, and a
\* second node name in every phase
TopTierPods ==
    { MkPod(n, p, r, d, 0, 0, 1) :
        n \in {"", "node-1"}, p \in Phases, r \in {Nil, Ptr(1)}, d \in {Nil, Ptr(1)} }
    \cup { MkPod("node-2", p, Nil, Nil, 0, 0, 1) : p \in Phases }

\* scheduled running pods over readiness, deletion, restarts and age
LowTierPods ==
    { MkPod("node-1", PodRunning, pr[1], pr[2], g, s, t) :
        pr \in Profiles, g \in 0..1, s \in 0..1, t \in 0..MaxTime }

RankDomain == TopTierPods \cup LowTierPods

\* the snapshots compared two by two: every field against every other
PairDomain ==
    { MkPod(n, p, r, d, g, 0, t) :
        n \in {"", "node-1"}, p \in Phases \cup {""},
        r \in {Nil, Ptr(1)}, d \in {Nil, Ptr(1)},
        g \in 0..MaxRestarts, t \in 0..MaxTime }

----------------------------------------------------------------------------
VARIABLES
    a, b, c,    \* RankPods: the snapshots compared
    res,        \* RankPods: the results of the comparisons
    pods,       \* selection: the caller's slice
    sel,        \* selection: the call and its outcome
    cpod,       \* classification: the snapshot
    verdict,    \* classification: what Classify made of it
    w,          \* WaitPodReady: its position, Stop calls and outcome
    ch,         \* WaitPodReady: the watch's result channel
    ctx,        \* WaitPodReady: the context's error, "" while it is not done
    mem,        \* shared snapshot: its phase and the memory of its status slices
    gor         \* the goroutines calling on the shared snapshot

rankVars == <<a, b, c, res>>
selVars == <<pods, sel>>
clsVars == <<cpod, verdict>>
waitVars == <<w, ch, ctx>>
concVars == <<mem, gor>>
vars == <<a, b, c, res, pods, sel, cpod, verdict, w, ch, ctx, mem, gor>>

----------------------------------------------------------------------------
(* Comparing snapshots: the inputs are drawn by Init, Compare calls RankPods *)

NoRes == [ done |-> FALSE, aa |-> 0, ab |-> 0, ba |-> 0, bc |-> 0, ac |-> 0 ]

Compare ==
    /\ ~res.done
    /\ res' = [ done |-> TRUE, aa |-> RankPods(a, a), ab |-> RankPods(a, b),
                ba |-> RankPods(b, a), bc |-> RankPods(b, c), ac |-> RankPods(a, c) ]
    /\ UNCHANGED <<a, b, c>>
    /\ UNCHANGED <<selVars, clsVars, waitVars, concVars>>

----------------------------------------------------------------------------
(* Selecting the top ranked pod *)

\* RankPodsVal
RankPodsVal(x, y) == RankPods(x, y)

\* the comparison function handed to slices.SortFunc, called on two elements
Cmp(fn, x, y) == IF fn = "RankPodsVal" THEN RankPodsVal(x, y) ELSE RankPods(x, y)

Swap(data, i, j) == [data EXCEPT ![i] = data[j], ![j] = data[i]]

\* slices.SortFunc on at most 12 elements is an insertion sort; its inner
\* loop moves data[j] down while it compares less than its predecessor
RECURSIVE InsertDown(_, _, _)
InsertDown(data, j, fn) ==
    IF j > 1 /\ Cmp(fn, data[j], data[j - 1]) < 0
    THEN InsertDown(Swap(data, j, j - 1), j - 1, fn)
    ELSE data

RECURSIVE InsertionSort(_, _, _)
InsertionSort(data, i, fn) ==
    IF i > Len(data) THEN data
    ELSE InsertionSort(InsertDown(data, i, fn), i + 1, fn)

SortFunc(data, fn) == InsertionSort(data, 2, fn)

NoOut == [ kind |-> "none" ]
PodOut(pod) == [ kind |-> "pod", pod |-> pod ]
ErrOut(err) == [ kind |-> "error", err |-> err ]
\* a run-time panic ends the call abnormally
PanicOut(what) == [ kind |-> "panic", err |-> what ]

\* the first element of the sorted slice instead of the last
FirstOf(sorted) ==
    IF Len(sorted) = 0 THEN PanicOut("index out of range [0]")
    ELSE PodOut(sorted[1])

\* pods[len(pods)-1] after the sort: index -1 of an empty slice is out of range
LastOf(sorted) ==
    IF Len(sorted) = 0 THEN PanicOut("index out of range [-1]")
    ELSE PodOut(sorted[Len(sorted)])

\* GetFirstPod (sorting by RankPods) and GetFirstPodVal (by RankPodsVal): the
\* slice as sorted in place, and what the call yields
GetFirstPodResult(slice, fn) ==
    LET sorted == SortFunc(slice, fn)
    IN  [ pods |-> sorted, out |-> LastOf(sorted) ]

SelectDomain ==
    { MkPod(n, PodRunning, r, Nil, 0, 0, t) :
        n \in {"", "node-1", "node-2"}, r \in {Nil, Ptr(1)}, t \in 1..2 }

SeqsUpTo(S, n) == UNION { [1..k -> S] : k \in 0..n }

GetFirstPod ==
    /\ sel.pc = "call"
    /\ UNCHANGED <<rankVars, clsVars, waitVars, concVars>>
    /\ LET r == GetFirstPodResult(pods, "RankPods")
       IN  /\ pods' = r.pods
           /\ sel' = [sel EXCEPT !.pc = "done", !.entry = "GetFirstPod", !.out = r.out]

GetFirstPodVal ==
    /\ sel.pc = "call"
    /\ UNCHANGED <<rankVars, clsVars, waitVars, concVars>>
    /\ LET r == GetFirstPodResult(pods, "RankPodsVal")
       IN  /\ pods' = r.pods
           /\ sel' = [sel EXCEPT !.pc = "done", !.entry = "GetFirstPodVal", !.out = r.out]

\* ListFirstPod: the lister fails, or returns the slice as podList.Items
ListFirstPod ==
    /\ sel.pc = "call"
    /\ UNCHANGED <<rankVars, clsVars, waitVars, concVars>>
    /\ \/ /\ sel' = [sel EXCEPT !.pc = "done", !.entry = "ListFirstPod:lister failed",
                                 !.out = ErrOut("lister error")]
          /\ UNCHANGED pods
       \/ /\ Len(pods) = 0
          /\ sel' = [sel EXCEPT !.pc = "done", !.entry = "ListFirstPod",
                                 !.out = ErrOut("not found")]
          /\ UNCHANGED pods
       \/ /\ Len(pods) # 0
          /\ LET r == GetFirstPodResult(pods, "RankPodsVal")
             IN  /\ pods' = r.pods
                 /\ sel' = [sel EXCEPT !.pc = "done", !.entry = "ListFirstPod", !.out = r.out]

----------------------------------------------------------------------------
(* Classifying a snapshot *)

StatusDomain(name) ==
    { Status(name, TRUE, Terminated("exit 0"), Nil),
      Status(name, FALSE, Nil, Nil),
      Status(name, FALSE, Terminated("exit 1"), Nil),
      Status(name, FALSE, Nil, Waiting("ImagePullBackOff", "manifest unknown")),
      Status(name, FALSE, Nil, Waiting("CrashLoopBackoff", "back-off")),
      Status(name, FALSE, Nil, Waiting("CreateContainerConfigError", "no secret")),
      Status(name, FALSE, Nil, Waiting("ContainerCreating", "")) }

\* the status lists of at most n containers, the i-th named prefix-i
StatusLists(prefix, n) ==
    UNION { { f \in [1..k -> UNION { StatusDomain(<<prefix, i>>) : i \in 1..k }] :
                \A i \in 1..k : f[i].Name = <<prefix, i>> } : k \in 0..n }

PhaseReasons ==
    { <<PodRunning, "">>, <<PodPending, "">>, <<PodSucceeded, "">>,
      <<PodFailed, "Evicted">>, <<PodFailed, "">>, <<PodUnknown, "NodeLost">> }

ConditionLists ==
    { <<>>, <<ReadyCond(ConditionTrue)>>, <<ReadyCond(ConditionFalse)>>,
      <<ReadyCond(ConditionFalse), ReadyCond(ConditionTrue)>> }

ClassifyPod ==
    /\ verdict.kind = "none"
    /\ verdict' = Classify(cpod)
    /\ UNCHANGED cpod
    /\ UNCHANGED <<rankVars, selVars, waitVars, concVars>>

----------------------------------------------------------------------------
(* WaitPodReady *)

Canceled == "context canceled"
DeadlineExceeded == "context deadline exceeded"

\* what a watch event carries: a pod, another object (the Status of an
\* Error event), or nothing (the zero Event read from a closed channel)
PodEvent(pod) == [ Type |-> "MODIFIED", Object |-> [ kind |-> "Pod", pod |-> pod ] ]
ErrorEvent == [ Type |-> "ERROR", Object |-> [ kind |-> "Status" ] ]
ZeroEvent == [ Type |-> "", Object |-> [ kind |-> "nil" ] ]

WatchPods ==
    { Snapshot(PodPending, "", <<>>, Nil, <<>>, <<>>),
      Snapshot(PodRunning, "", <<ReadyCond(ConditionTrue)>>, Nil, <<>>, <<>>),
      Snapshot(PodRunning, "", <<ReadyCond(ConditionTrue)>>, Ptr(1), <<>>, <<>>),
      Snapshot(PodFailed, "Evicted", <<>>, Nil, <<>>, <<>>),
      Snapshot(PodRunning, "", <<ReadyCond(ConditionTrue)>>, Nil,
               << Status(<<"app", 1>>, FALSE, Nil, Waiting("CrashLoopBackoff", "back-off")) >>,
               <<>>) }

WatchEvents == { PodEvent(p) : p \in WatchPods } \cup {ErrorEvent}

\* pod, _ := ev.Object.(*corev1.Pod): nil when the object is no pod
AsPod(ev) == IF ev.Object.kind = "Pod" THEN Ptr(ev.Object.pod) ELSE Nil

\* a Stop that is not deferred and not called on return
NoStop(stops) == stops

\* the deferred inter.Stop() runs once when the function returns or panics
DeferredStop(stops) == stops + 1

\* every done context reported as canceled
AlwaysCanceled(err) == "context canceled"

\* ctx.Err()
CtxErr(err) == err

waitOthers == <<rankVars, selVars, clsVars, concVars>>

\* watcher.Watch returns an error
WatchFails ==
    /\ w.pc = "start"
    /\ w' = [w EXCEPT !.pc = "done", !.out = ErrOut("watch error")]
    /\ UNCHANGED <<ch, ctx, waitOthers>>

\* watcher.Watch returns a watch.Interface
WatchOpens ==
    /\ w.pc = "start"
    /\ w' = [w EXCEPT !.pc = "watching", !.opened = TRUE]
    /\ UNCHANGED <<ch, ctx, waitOthers>>

\* the caller cancels the context
Cancel ==
    /\ ctx = ""
    /\ ctx' = Canceled
    /\ UNCHANGED <<w, ch, waitOthers>>

\* the context's deadline passes
Deadline ==
    /\ ctx = ""
    /\ ctx' = DeadlineExceeded
    /\ UNCHANGED <<w, ch, waitOthers>>

IsNotYetReadyEvent(ev) ==
    ~IsNil(AsPod(ev)) /\ Classify(Deref(AsPod(ev))).kind = "NotYetReady"

\* the watch sends an event on its result channel; w.early and w.late record
\* what the stream did before and after the context was done
Emit ==
    /\ w.pc = "watching"
    /\ ~ch.closed
    /\ Len(ch.q) < MaxChan
    /\ \E ev \in WatchEvents :
          /\ ch' = [ch EXCEPT !.q = Append(@, ev)]
          /\ w' = [w EXCEPT !.early = @ \/ ctx = "",
                             !.late = @ \/ (ctx # "" /\ ~IsNotYetReadyEvent(ev))]
    /\ UNCHANGED <<ctx, waitOthers>>

\* the watch closes its result channel
CloseChan ==
    /\ w.pc = "watching"
    /\ ~ch.closed
    /\ ch' = [ch EXCEPT !.closed = TRUE]
    /\ w' = [w EXCEPT !.early = @ \/ ctx = "", !.late = @ \/ ctx # ""]
    /\ UNCHANGED <<ctx, waitOthers>>

\* case <-ctx.Done()
SelectDone ==
    /\ w.pc = "watching"
    /\ ctx # ""
    /\ w' = [w EXCEPT !.pc = "done", !.out = ErrOut(CtxErr(ctx)),
                       !.stops = DeferredStop(@)]
    /\ UNCHANGED <<ch, ctx, waitOthers>>

\* what the event case does with the event received: PodErr dereferences
\* the pod, which panics on a nil pointer
OnEvent(ev) ==
    LET pod == AsPod(ev)
    IN  IF IsNil(pod) THEN PanicOut("nil pointer dereference")
        ELSE CASE Classify(Deref(pod)).kind = "Failed" -> ErrOut(Classify(Deref(pod)).err)
               [] Classify(Deref(pod)).kind = "Ready" -> PodOut(Deref(pod))
               [] OTHER -> NoOut

\* case ev := <-inter.ResultChan(): a buffered event, or the zero Event of a
\* closed and drained channel
SelectEvent ==
    /\ w.pc = "watching"
    /\ Len(ch.q) > 0 \/ ch.closed
    /\ LET ev == IF Len(ch.q) > 0 THEN Head(ch.q) ELSE ZeroEvent
           out == OnEvent(ev)
       IN  /\ ch' = [ch EXCEPT !.q = IF Len(@) > 0 THEN Tail(@) ELSE @]
           /\ w' = IF out = NoOut
                    THEN [w EXCEPT !.consumed = TRUE]
                    ELSE [w EXCEPT !.consumed = TRUE, !.pc = "done", !.out = out,
                                   !.stops = DeferredStop(@)]
    /\ UNCHANGED <<ctx, waitOthers>>

----------------------------------------------------------------------------
(* Concurrent calls on one snapshot.  ContainerStatuses is a slice of      *)
(* length mem.len over the backing array mem.arr, whose length is the      *)
(* slice's capacity.                                                       *)

Goroutines == {1, 2}
Calls == {"PodErr", "IsPodReady", "maxContainerRestarts", "RankPods"}

ZeroStatus == Status("", FALSE, Nil, Nil)

\* the snapshot a goroutine reads from memory
SharedPod(m) ==
    Snapshot(m.phase, "", <<>>, Nil, SubSeq(m.arr, 1, m.len), m.init)

\* append(s, t...) re-uses the backing array of s when the capacity fits
AppendInPlace(m) == m.len + Len(m.init) <= Len(m.arr)

concOthers == <<rankVars, selVars, clsVars, waitVars>>

\* a goroutine calls one of the functions on the snapshot
GoCall(g) ==
    /\ gor[g].pc = "idle"
    /\ gor[g].calls < MaxCalls
    /\ \E fn \in Calls :
          gor' = [gor EXCEPT ![g].pc = IF fn = "PodErr" THEN "phase" ELSE "read",
                             ![g].fn = fn, ![g].calls = @ + 1]
    /\ UNCHANGED <<mem, concOthers>>

\* IsPodReady, maxContainerRestarts and RankPods read the snapshot
GoRead(g) ==
    /\ gor[g].pc = "read"
    /\ gor' = [gor EXCEPT ![g].pc = "idle"]
    /\ UNCHANGED <<mem, concOthers>>

\* PodErr: the test of the phase
GoPodErrPhase(g) ==
    /\ gor[g].pc = "phase"
    /\ gor' = [gor EXCEPT ![g].pc =
                  IF mem.phase = PodFailed \/ mem.phase = PodUnknown
                  THEN "idle" ELSE "append"]
    /\ UNCHANGED <<mem, concOthers>>

\* PodErr: append decides between the backing array and a new one
GoPodErrAppend(g) ==
    /\ gor[g].pc = "append"
    /\ gor' = [gor EXCEPT
                  ![g].pc = IF AppendInPlace(mem) /\ Len(mem.init) > 0 THEN "copy" ELSE "range",
                  ![g].k = 1,
                  ![g].own = IF AppendInPlace(mem) THEN <<>>
                             ELSE AppendAll(SubSeq(mem.arr, 1, mem.len), mem.init)]
    /\ UNCHANGED <<mem, concOthers>>

\* PodErr: append copies one init container status past the slice's length
GoPodErrCopy(g) ==
    /\ gor[g].pc = "copy"
    /\ mem' = [mem EXCEPT !.arr[mem.len + gor[g].k] = mem.init[gor[g].k]]
    /\ gor' = [gor EXCEPT
                  ![g].wrote = @ \cup {mem.len + gor[g].k},
                  ![g].k = @ + 1,
                  ![g].pc = IF gor[g].k = Len(mem.init) THEN "range" ELSE "copy"]
    /\ UNCHANGED concOthers

\* PodErr: the loop over the appended slice
GoPodErrRange(g) ==
    /\ gor[g].pc = "range"
    /\ gor' = [gor EXCEPT ![g].pc = "idle", ![g].own = <<>>]
    /\ UNCHANGED <<mem, concOthers>>

----------------------------------------------------------------------------
(* Specifications *)

InitRank ==
    /\ a \in RankDomain
    /\ b \in RankDomain
    /\ c \in RankDomain
    /\ res = NoRes
    /\ pods = <<>> /\ sel = <<>> /\ cpod = <<>> /\ verdict = <<>>
    /\ w = <<>> /\ ch = <<>> /\ ctx = "" /\ mem = <<>> /\ gor = <<>>

InitPair ==
    /\ a \in PairDomain
    /\ b \in PairDomain
    /\ c = MkPod("", PodPending, Nil, Nil, 0, 0, 0)
    /\ res = NoRes
    /\ pods = <<>> /\ sel = <<>> /\ cpod = <<>> /\ verdict = <<>>
    /\ w = <<>> /\ ch = <<>> /\ ctx = "" /\ mem = <<>> /\ gor = <<>>

RankNext == Compare

SpecRank == InitRank /\ [][RankNext]_vars

SpecPair == InitPair /\ [][RankNext]_vars

InitSelect ==
    /\ pods \in SeqsUpTo(SelectDomain, MaxPods)
    /\ sel = [ pc |-> "call", entry |-> "", input |-> pods, out |-> NoOut ]
    /\ a = <<>> /\ b = <<>> /\ c = <<>> /\ res = <<>> /\ cpod = <<>> /\ verdict = <<>>
    /\ w = <<>> /\ ch = <<>> /\ ctx = "" /\ mem = <<>> /\ gor = <<>>

SelNext == GetFirstPod \/ GetFirstPodVal \/ ListFirstPod

SpecSelect == InitSelect /\ [][SelNext]_vars

InitClassify ==
    /\ \E pr \in PhaseReasons, cl \in ConditionLists, d \in {Nil, Ptr(1)},
          cs \in StatusLists("app", MaxContainers),
          ics \in StatusLists("init", MaxInitContainers) :
          cpod = Snapshot(pr[1], pr[2], cl, d, cs, ics)
    /\ verdict = [ kind |-> "none" ]
    /\ a = <<>> /\ b = <<>> /\ c = <<>> /\ res = <<>> /\ pods = <<>> /\ sel = <<>>
    /\ w = <<>> /\ ch = <<>> /\ ctx = "" /\ mem = <<>> /\ gor = <<>>

ClsNext == ClassifyPod

SpecClassify == InitClassify /\ [][ClsNext]_vars

InitWait ==
    /\ w = [ pc |-> "start", opened |-> FALSE, stops |-> 0, out |-> NoOut,
             consumed |-> FALSE, early |-> FALSE, late |-> FALSE ]
    /\ ch = [ q |-> <<>>, closed |-> FALSE ]
    /\ ctx = ""
    /\ a = <<>> /\ b = <<>> /\ c = <<>> /\ res = <<>> /\ pods = <<>> /\ sel = <<>>
    /\ cpod = <<>> /\ verdict = <<>> /\ mem = <<>> /\ gor = <<>>

WaitNext ==
    \/ WatchFails
    \/ WatchOpens
    \/ Cancel
    \/ Deadline
    \/ Emit
    \/ CloseChan
    \/ SelectDone
    \/ SelectEvent

SpecWait == InitWait /\ [][WaitNext]_vars

\* select picks among its ready cases at random, so a case that stays ready
\* is taken in the end
SpecWaitFair == SpecWait /\ WF_vars(SelectDone)

InitConc ==
    /\ \E phase \in {PodRunning, PodFailed}, len \in 0..1, spare \in 0..MaxSpare,
          init \in StatusLists("init", MaxSpare) :
          mem = [ phase |-> phase,
                  arr |-> [ i \in 1..(len + spare) |->
                              IF i <= len THEN Status(<<"app", i>>, TRUE, Nil, Nil)
                              ELSE ZeroStatus ],
                  len |-> len,
                  init |-> init,
                  arr0 |-> [ i \in 1..(len + spare) |->
                              IF i <= len THEN Status(<<"app", i>>, TRUE, Nil, Nil)
                              ELSE ZeroStatus ] ]
    /\ gor = [ g \in Goroutines |->
                 [ pc |-> "idle", fn |-> "", calls |-> 0, k |-> 1, own |-> <<>>, wrote |-> {} ] ]
    /\ a = <<>> /\ b = <<>> /\ c = <<>> /\ res = <<>> /\ pods = <<>> /\ sel = <<>>
    /\ cpod = <<>> /\ verdict = <<>> /\ w = <<>> /\ ch = <<>> /\ ctx = ""

ConcNext ==
    \E g \in Goroutines :
        \/ GoCall(g)
        \/ GoRead(g)
        \/ GoPodErrPhase(g)
        \/ GoPodErrAppend(g)
        \/ GoPodErrCopy(g)
        \/ GoPodErrRange(g)

SpecConc == InitConc /\ [][ConcNext]_vars

----------------------------------------------------------------------------
(* Claims on RankPods *)

\* C1: RankPods is a strict total preorder: a snapshot compares equal to
\* itself, swapping the arguments negates the result, and LESS is transitive.
C1_TotalPreorder ==
    res.done =>
        /\ res.aa = 0
        /\ res.ab = -res.ba
        /\ (res.ab < 0 /\ res.bc < 0) => res.ac < 0

\* a chain a < b < c decided at two different tiers: a < b by phase, b < c
\* below the phase tier
C1_Witness ==
    /\ res.done
    /\ res.ab < 0 /\ res.bc < 0
    /\ RankAssigned(a, b) = 0 /\ RankPhase(a, b) < 0
    /\ RankAssigned(b, c) = 0 /\ RankPhase(b, c) = 0

C7_OtherPhases == {PodSucceeded, PodFailed, ""}

\* C7 as amended: a phase that is no key of the map ranks 0 like Pending.
\* With scheduling tied, Pending < Unknown < Running, and a Succeeded, Failed
\* or empty-phase snapshot is LESS than an Unknown or Running one and ties
\* with a Pending one at this tier (tiers 3 to 8 decide).
C7_PhaseRank ==
    (res.done /\ RankAssigned(a, b) = 0) =>
        /\ (a.Phase = PodPending /\ b.Phase \in {PodUnknown, PodRunning}) => res.ab = -1
        /\ (a.Phase = PodUnknown /\ b.Phase = PodRunning) => res.ab = -1
        /\ (a.Phase \in C7_OtherPhases /\ b.Phase \in {PodUnknown, PodRunning}) =>
                (res.ab = -1 /\ res.ba = 1)
        /\ (a.Phase \in C7_OtherPhases /\ b.Phase \in C7_OtherPhases \cup {PodPending}) =>
                res.ab = RankFromReady(a, b)

\* a Succeeded snapshot was ranked below an Unknown one on the same node
C7_Witness ==
    /\ res.done
    /\ a.NodeName = b.NodeName
    /\ a.Phase = PodSucceeded /\ b.Phase = PodUnknown
    /\ res.ab = -1

\* C7 as stated: every other phase ranks 2, so with scheduling tied a
\* Succeeded or Failed snapshot is GREATER than a Pending or Unknown one and
\* ties with a Running one at this tier.
C7_Original ==
    (res.done /\ RankAssigned(a, b) = 0 /\ a.Phase \in C7_OtherPhases) =>
        /\ b.Phase \in {PodPending, PodUnknown} => res.ab = 1
        /\ b.Phase = PodRunning => res.ab = RankFromReady(a, b)

\* tiers 1 to 7 all fall through
C8_TiesToAge(x, y) ==
    /\ RankAssigned(x, y) = 0 /\ RankPhase(x, y) = 0 /\ RankReady(x, y) = 0
    /\ RankDeleting(x, y) = 0 /\ RankDeletionTime(x, y) = 0
    /\ RankReadyTime(x, y) = 0 /\ RankRestarts(x, y) = 0

\* C8: when tiers 1 to 7 tie and the creation timestamps differ, the more
\* recently created snapshot is LESS, and a snapshot with a zero creation
\* timestamp is LESS than one with a set timestamp, in both argument orders.
C8_AgeTier ==
    (res.done /\ C8_TiesToAge(a, b) /\ a.CreationTimestamp # b.CreationTimestamp) =>
        /\ (a.CreationTimestamp # 0 /\ b.CreationTimestamp # 0
                /\ a.CreationTimestamp > b.CreationTimestamp) => res.ab < 0
        /\ a.CreationTimestamp = 0 => (res.ab < 0 /\ res.ba > 0)

----------------------------------------------------------------------------
(* Claims on the selection *)

\* C2: selecting from an empty collection fails with a not-found error on
\* every entry point (the lister having returned an empty list).
C2_EmptyNotFound ==
    (sel.pc = "done" /\ Len(sel.input) = 0 /\ sel.entry # "ListFirstPod:lister failed") =>
        sel.out = ErrOut("not found")

C3_Range(q) == { q[i] : i \in 1..Len(q) }
C3_Count(q, x) == Cardinality({ i \in 1..Len(q) : q[i] = x })
C3_Reorderings(q) ==
    { [ i \in 1..Len(q) |-> q[p[i]] ] :
        p \in { f \in [1..Len(q) -> 1..Len(q)] : \A i, j \in 1..Len(q) : f[i] = f[j] => i = j } }
C3_Cmp == IF sel.entry = "GetFirstPod" THEN "RankPods" ELSE "RankPodsVal"
C3_NoTies(q) == \A i, j \in 1..Len(q) : i # j => RankPods(q[i], q[j]) # 0

\* C3: on a non-empty input the selection yields an element of the input
\* that no element ranks above, the sort leaves the slice a permutation of
\* the input, and when no two elements compare equal every permutation of
\* the input selects the same element.
C3_SelectsGreatest ==
    (sel.pc = "done" /\ Len(sel.input) > 0 /\ sel.entry # "ListFirstPod:lister failed") =>
        /\ sel.out.kind = "pod"
        /\ sel.out.pod \in C3_Range(sel.input)
        /\ \A x \in C3_Range(sel.input) : RankPods(x, sel.out.pod) <= 0
        /\ Len(pods) = Len(sel.input)
        /\ \A x \in C3_Range(sel.input) : C3_Count(pods, x) = C3_Count(sel.input, x)
        /\ C3_NoTies(sel.input) =>
                \A q \in C3_Reorderings(sel.input) :
                    GetFirstPodResult(q, C3_Cmp).out = sel.out

\* a selection over three mutually distinct ranks given out of order
C3_Witness ==
    /\ sel.pc = "done"
    /\ sel.entry = "GetFirstPod"
    /\ Len(sel.input) = 3
    /\ C3_NoTies(sel.input)
    /\ pods # sel.input
    /\ sel.out.kind = "pod"
    /\ sel.out.pod = sel.input[1]

----------------------------------------------------------------------------
(* Claims on the classification *)

C6_Fails(s) ==
    /\ ~s.Ready
    /\ \/ ~IsNil(s.Terminated)
       \/ /\ ~IsNil(s.Waiting)
          /\ Deref(s.Waiting).Reason \in
                {"ImagePullBackOff", "CrashLoopBackoff", "CreateContainerConfigError"}

C6_Message(s) ==
    IF ~IsNil(s.Terminated)
    THEN <<"container ", s.Name, " terminated: ", Deref(s.Terminated).Message>>
    ELSE IF Deref(s.Waiting).Reason = "ImagePullBackOff"
    THEN <<"container ", s.Name, " has an invalid image: ", Deref(s.Waiting).Message>>
    ELSE <<"container ", s.Name, " failed to start: ", Deref(s.Waiting).Message>>

C6_Expected(pod) ==
    LET all == pod.ContainerStatuses \o pod.InitContainerStatuses
        failing == { i \in 1..Len(all) : C6_Fails(all[i]) }
        first == CHOOSE i \in failing : \A j \in failing : i <= j
        ready == \E i \in 1..Len(pod.Conditions) :
                    pod.Conditions[i].Type = "Ready" /\ pod.Conditions[i].Status = "True"
    IN  IF pod.Phase \in {"Failed", "Unknown"}
        THEN [ kind |-> "Failed", err |-> <<pod.Reason>> ]
        ELSE IF failing # {}
        THEN [ kind |-> "Failed", err |-> C6_Message(all[first]) ]
        ELSE IF ready /\ pod.DeletionTimestamp = Nil
        THEN [ kind |-> "Ready" ]
        ELSE [ kind |-> "NotYetReady" ]

\* C6: the verdict is Failed with the phase's reason when the phase is Failed
\* or Unknown; otherwise Failed with the message of the first failing
\* not-ready container, regular containers before init containers, in list
\* order; otherwise Ready iff a Ready condition is true and no deletion
\* timestamp is set, and NotYetReady if not.
C6_Classifier ==
    verdict.kind # "none" => verdict = C6_Expected(cpod)

\* a snapshot with a true Ready condition whose first failing container is
\* its init container, after two regular containers that give no verdict
C6_Witness ==
    /\ verdict.kind = "Failed"
    /\ cpod.Phase = PodRunning
    /\ Len(cpod.ContainerStatuses) = 2
    /\ \A i \in 1..2 : ~C6_Fails(cpod.ContainerStatuses[i])
    /\ Len(cpod.InitContainerStatuses) = 1
    /\ verdict.err[2] = cpod.InitContainerStatuses[1].Name
    /\ IsPodReady(cpod)

----------------------------------------------------------------------------
(* Claims on WaitPodReady *)

\* C4: Stop is called exactly once on every exit from Watching and never
\* while Watching; when the watch cannot be opened Stop is not called, the
\* open error is returned and no event is consumed.
C4_StopOnce ==
    /\ w.pc \in {"start", "watching"} => w.stops = 0
    /\ (w.pc = "done" /\ w.opened) => w.stops = 1
    /\ (w.pc = "done" /\ ~w.opened) =>
            (w.stops = 0 /\ w.out = ErrOut("watch error") /\ ~w.consumed)

\* the wait was canceled after it had consumed events
C4_Witness ==
    /\ w.pc = "done"
    /\ w.opened
    /\ w.consumed
    /\ w.out = ErrOut(Canceled)
    /\ w.stops = 1

\* nothing came from the stream while the context was live, and all that
\* came after is snapshots that are not yet ready
C5_QuietStream == w.opened /\ ~w.early /\ ~w.late

\* C5: once the context is done the wait leaves Watching and Stop has been
\* called; and when the deadline passes on a stream that has emitted nothing,
\* the wait returns no pod and the deadline-exceeded error.
C5_CancelEnds ==
    /\ [] ((w.pc = "done" /\ ctx = DeadlineExceeded /\ C5_QuietStream) =>
                w.out = ErrOut(DeadlineExceeded))
    /\ ((w.pc = "watching" /\ ctx # "") ~> (w.pc = "done" /\ w.stops = 1))

\* the deadline passed on a silent stream, not-yet-ready snapshots were
\* consumed after it, and the wait ended on the deadline
C5_Witness ==
    /\ w.pc = "done"
    /\ ctx = DeadlineExceeded
    /\ C5_QuietStream
    /\ w.consumed
    /\ w.out = ErrOut(DeadlineExceeded)
    /\ w.stops = 1

\* C9: whatever event is delivered, the wait stays Watching or ends Ready
\* (a pod), Failed or Canceled (an error); it never ends abnormally.
C9_DeclaredOutcomes ==
    /\ w.pc = "watching" => w.out = NoOut
    /\ (w.pc = "done" /\ w.opened) => w.out.kind \in {"pod", "error"}

----------------------------------------------------------------------------
(* Claims on concurrent calls *)

\* C10: no call writes to memory reachable from the snapshot, the spare
\* capacity of the backing array of ContainerStatuses included; no two calls
\* write the same location; the snapshot's contents stay as they were.
C10_NoSharedWrites ==
    /\ \A g \in Goroutines : gor[g].wrote = {}
    /\ \A g, h \in Goroutines : g # h => gor[g].wrote \cap gor[h].wrote = {}
    /\ mem.arr = mem.arr0

====
